---------------------------- MODULE Spec2Model ----------------------------
(***************************************************************************)
(* State-machine model of the teleoperation reducer of remote_control.py   *)
(* (class RemoteControlVector, class Subroutines and the Flask request     *)
(* handlers that drive them).                                              *)
(*                                                                         *)
(* Conventions                                                             *)
(*   - Python booleans and the 0/1 integers of the JSON payload are the    *)
(*     integers 0 and 1 (bool is a subclass of int, True - False = 1).     *)
(*   - An attribute that is None or holds a value v is None or Some(v).    *)
(*   - Head velocities are counted in halves (the code's 2, 1, 0.5 are     *)
(*     4, 2, 1 here), so that they stay integers; zero stays zero.         *)
(*   - A queue entry is the Python tuple (callable, argument); the field   *)
(*     id is the identity of that tuple object (its enqueue number).       *)
(***************************************************************************)
EXTENDS Integers, Sequences, FiniteSets, TLC

VARIABLES
    drive_forwards, drive_back, turn_left, turn_right,  \* drive flags
    lift_up, lift_down, head_up, head_down,             \* lift and head flags
    go_fast, go_slow,                                   \* modifier flags
    last_lift, last_head, last_wheels,                  \* last-sent setpoints
    anim_index_for_key,                                 \* key slot -> routine index
    action_queue,                                       \* pending one-shot actions
    text_to_say,
    runs, saved_pose,                                   \* Subroutines state
    motors,                                             \* the robot: last command each motor received
    queued,                                             \* number of tuples ever enqueued
    selects,                                            \* number of dropDownSelect requests handled
    tick,                                               \* position of the update() call in progress
    quiz,                                               \* the quiz runner process
    last                                                \* the request handled last, and what it did

driveFlags == <<drive_forwards, drive_back, turn_left, turn_right>>
liftFlags  == <<lift_up, lift_down>>
headFlags  == <<head_up, head_down>>
modFlags   == <<go_fast, go_slow>>
lastSent   == <<last_lift, last_head, last_wheels>>
axisVars   == <<driveFlags, liftFlags, headFlags, modFlags, lastSent, motors>>
queueVars  == <<action_queue, queued>>
subVars    == <<runs, saved_pose>>
remoteVars == <<axisVars, anim_index_for_key, queueVars, text_to_say, subVars, selects, tick>>
vars == <<remoteVars, quiz, last>>

-----------------------------------------------------------------------------
(* Bounds of the model *)

\* tuples ever enqueued in one run of the queue specification
MaxEnqueued == 12
\* direct run_subroutine calls in one run of the dispatcher specification
MaxRuns == 8
\* dropDownSelect requests in one run of the key-table specification
MaxSelects == 1
\* pending actions in the numeric-key and key-table specifications
MaxPending == 2
\* key events in one event sequence of a single axis
MaxKeyEvents == 4
\* key releases in one run of the drain and of the late-change specifications
MaxReleases == 3

-----------------------------------------------------------------------------
(* Python values *)

None == <<>>
Some(v) == <<v>>

\* truth value of an attribute that is None or a number
TruthyNumber(x) == x # None /\ x[1] # 0

\* truth value of an attribute that is None or a tuple
TruthyTuple(x) == x # None /\ Len(x[1]) > 0

\* ord() of the keys the code names
ord_W == 87
ord_S == 83
ord_A == 65
ord_D == 68
ord_R == 82
ord_F == 70
ord_T == 84
ord_G == 71
ord_1 == 49
ord_8 == 56
ord_space == 32
\* a key the page forwards and handle_key names nowhere
ord_P == 80

DriveKeys == {ord_W, ord_S, ord_A, ord_D}
LiftKeys  == {ord_R, ord_F}
HeadKeys  == {ord_T, ord_G}
AxisKeys  == DriveKeys \cup LiftKeys \cup HeadKeys
NumKeys   == ord_1 .. ord_8

\* Subroutines.routines, which RemoteControlVector.anim_names aliases
\* (Python index n is position n + 1 here)
anim_names == <<"connect_to_cube", "pick_up_cube", "drive_to_charger", "roll_cube",
                "flash_cube_lights", "save_pose", "go_to_saved_pose", "put_cube_down">>

default_anims_for_keys == <<"connect_to_cube", "flash_cube_lights", "pick_up_cube",
                            "put_cube_down", "roll_cube", "drive_to_charger",
                            "save_pose", "go_to_saved_pose">>

\* list.index: the Python index of the first occurrence
IndexOf(seq, x) == (CHOOSE n \in 1..Len(seq) : seq[n] = x /\ \A m \in 1..(n-1) : seq[m] # x) - 1

\* the table __init__ builds: slot kI (0-based) -> index into anim_names
InitAnimIndexForKey ==
    [kI \in 0..7 |->
        IF \E n \in 1..Len(anim_names) : anim_names[n] = default_anims_for_keys[kI + 1]
        THEN IndexOf(anim_names, default_anims_for_keys[kI + 1])
        ELSE 0]

Texts == {"Hi I'm Vector", "hello"}


-----------------------------------------------------------------------------
(* RemoteControlVector: the key-intent reducer *)

\* self.mouse_dir, set once in __init__ and never written again
mouse_dir == 0

\* the length above which queue_action evicts
QueueLimit == 10

\* mutant: the fast modifier wins even when the slow modifier is set too
pick_speed_FastWins(fast_on, slow_on, fast_speed, mid_speed, slow_speed) ==
    IF fast_on # 0 THEN fast_speed
    ELSE IF slow_on # 0 THEN slow_speed
    ELSE mid_speed

\* mutant: the slow modifier wins when both modifiers are set
pick_speed_SlowWins(fast_on, slow_on, fast_speed, mid_speed, slow_speed) ==
    IF slow_on # 0 THEN slow_speed
    ELSE IF fast_on # 0 THEN fast_speed
    ELSE mid_speed

pick_speed(fast_on, slow_on, fast_speed, mid_speed, slow_speed) ==
    IF fast_on # 0
    THEN (IF slow_on = 0 THEN fast_speed ELSE mid_speed)
    ELSE IF slow_on # 0 THEN slow_speed
    ELSE mid_speed

\* mutant: every key event marks the drive axis for recomputation
update_drive_state_AlwaysDirty(key_code, is_key_down, speed_changed) ==
    [drive_forwards |-> IF key_code = ord_W THEN is_key_down ELSE drive_forwards,
     drive_back     |-> IF key_code = ord_S THEN is_key_down ELSE drive_back,
     turn_left      |-> IF key_code = ord_A THEN is_key_down ELSE turn_left,
     turn_right     |-> IF key_code = ord_D THEN is_key_down ELSE turn_right,
     update         |-> TRUE]

update_drive_state(key_code, is_key_down, speed_changed) ==
    [drive_forwards |-> IF key_code = ord_W THEN is_key_down ELSE drive_forwards,
     drive_back     |-> IF key_code = ord_S THEN is_key_down ELSE drive_back,
     turn_left      |-> IF key_code = ord_A THEN is_key_down ELSE turn_left,
     turn_right     |-> IF key_code = ord_D THEN is_key_down ELSE turn_right,
     update         |-> key_code \in {ord_W, ord_S, ord_A, ord_D} \/ speed_changed]

\* mutant: a change of the modifiers alone does not mark the lift axis
update_lift_state_IgnoresSpeedChange(key_code, is_key_down, speed_changed) ==
    [lift_up   |-> IF key_code = ord_R THEN is_key_down ELSE lift_up,
     lift_down |-> IF key_code = ord_F THEN is_key_down ELSE lift_down,
     update    |-> key_code \in {ord_R, ord_F}]

update_lift_state(key_code, is_key_down, speed_changed) ==
    [lift_up   |-> IF key_code = ord_R THEN is_key_down ELSE lift_up,
     lift_down |-> IF key_code = ord_F THEN is_key_down ELSE lift_down,
     update    |-> key_code \in {ord_R, ord_F} \/ speed_changed]

\* mutant: a change of the modifiers alone does not mark the head axis
update_head_state_IgnoresSpeedChange(key_code, is_key_down, speed_changed) ==
    [head_up   |-> IF key_code = ord_T THEN is_key_down ELSE head_up,
     head_down |-> IF key_code = ord_G THEN is_key_down ELSE head_down,
     update    |-> key_code \in {ord_T, ord_G}]

update_head_state(key_code, is_key_down, speed_changed) ==
    [head_up   |-> IF key_code = ord_T THEN is_key_down ELSE head_up,
     head_down |-> IF key_code = ord_G THEN is_key_down ELSE head_down,
     update    |-> key_code \in {ord_T, ord_G} \/ speed_changed]

\* the value a motor setter is called with
Command(motor, value) == [motor |-> motor, value |-> value]

\* mutant: a zero setpoint is never sent once something was sent
SameAsLastNumber_ZeroIsSame(last_value, value) ==
    last_value # None /\ (value = 0 \/ value = last_value[1])

\* "if self.last_x and x == self.last_x: return", for a numeric setpoint
SameAsLastNumber(last_value, value) == TruthyNumber(last_value) /\ value = last_value[1]

\* mutant: an all-zero wheel tuple counts as "nothing sent yet", as the number 0 does
SameAsLastTuple_ZeroIsFalse(last_value, value) ==
    /\ last_value # None
    /\ last_value[1] # <<0, 0, 0, 0>>
    /\ value = last_value[1]

\* the same test for the wheel tuple
SameAsLastTuple(last_value, value) == TruthyTuple(last_value) /\ value = last_value[1]

\* mutant: update_lift subtracts the flags the other way round
update_lift_SignSwapped(last_value, up, down, fast_on, slow_on) ==
    LET lift_speed == pick_speed(fast_on, slow_on, 8, 4, 2)
        lift_vel   == (down - up) * lift_speed
    IN  IF SameAsLastNumber(last_value, lift_vel)
        THEN [last |-> last_value, sent |-> <<>>]
        ELSE [last |-> Some(lift_vel), sent |-> <<Command("lift", lift_vel)>>]

\* update_lift on the flags and modifiers given: the new last_lift and what is sent
update_lift(last_value, up, down, fast_on, slow_on) ==
    LET lift_speed == pick_speed(fast_on, slow_on, 8, 4, 2)
        lift_vel   == (up - down) * lift_speed
    IN  IF SameAsLastNumber(last_value, lift_vel)
        THEN [last |-> last_value, sent |-> <<>>]
        ELSE [last |-> Some(lift_vel), sent |-> <<Command("lift", lift_vel)>>]

\* update_head, in halves: pick_speed(2, 1, 0.5) is pick_speed(4, 2, 1)
update_head(last_value, up, down, fast_on, slow_on) ==
    LET head_speed == pick_speed(fast_on, slow_on, 4, 2, 1)
        head_vel   == (up - down) * head_speed
    IN  IF SameAsLastNumber(last_value, head_vel)
        THEN [last |-> last_value, sent |-> <<>>]
        ELSE [last |-> Some(head_vel), sent |-> <<Command("head", head_vel)>>]

\* mutant: the turn direction is not negated when reversing
wheel_params_NoFlip(forwards, back, left, right, fast_on, slow_on) ==
    LET drive_dir     == forwards - back
        turn_dir      == (right - left) + mouse_dir
        forward_speed == pick_speed(fast_on, slow_on, 150, 75, 50)
        turn_speed    == pick_speed(fast_on, slow_on, 100, 50, 30)
        l_wheel_speed == (drive_dir * forward_speed) + (turn_speed * turn_dir)
        r_wheel_speed == (drive_dir * forward_speed) - (turn_speed * turn_dir)
    IN  <<l_wheel_speed, r_wheel_speed, l_wheel_speed * 4, r_wheel_speed * 4>>

\* the tuple update_mouse_driving computes
wheel_params(forwards, back, left, right, fast_on, slow_on) ==
    LET drive_dir     == forwards - back
        turn_raw      == (right - left) + mouse_dir
        turn_dir      == IF drive_dir < 0 THEN -turn_raw ELSE turn_raw
        forward_speed == pick_speed(fast_on, slow_on, 150, 75, 50)
        turn_speed    == pick_speed(fast_on, slow_on, 100, 50, 30)
        l_wheel_speed == (drive_dir * forward_speed) + (turn_speed * turn_dir)
        r_wheel_speed == (drive_dir * forward_speed) - (turn_speed * turn_dir)
    IN  <<l_wheel_speed, r_wheel_speed, l_wheel_speed * 4, r_wheel_speed * 4>>

update_mouse_driving(last_value, forwards, back, left, right, fast_on, slow_on) ==
    LET params == wheel_params(forwards, back, left, right, fast_on, slow_on)
    IN  IF SameAsLastTuple(last_value, params)
        THEN [last |-> last_value, sent |-> <<>>]
        ELSE [last |-> Some(params), sent |-> <<Command("wheels", params)>>]

\* mutant: the key number is taken for the routine index, the table is not consulted
key_code_to_anim_name_NoTable(key_code) ==
    LET key_num == key_code - ord_1
    IN  anim_names[key_num + 1]

key_code_to_anim_name(key_code) ==
    LET key_num  == key_code - ord_1
        anim_num == anim_index_for_key[key_num]
    IN  anim_names[anim_num + 1]

\* a new tuple object (callable, argument)
Action(fn, arg) == [fn |-> fn, arg |-> arg, id |-> queued + 1]

\* mutant: the new action is put in front of the pending ones
queue_action_Prepend(queue, new_action) ==
    IF Len(queue) > QueueLimit
    THEN <<new_action>> \o Tail(queue)
    ELSE <<new_action>> \o queue

queue_action(queue, new_action) ==
    IF Len(queue) > QueueLimit
    THEN Append(Tail(queue), new_action)
    ELSE Append(queue, new_action)

\* the record of the request handled last
\* (discarded: the exception the callee swallowed; raised: the one it let out;
\* before: the command each motor held when the request came in)
Request(op, args, sent, invoked, ret, discarded, raised) ==
    [op |-> op, args |-> args, sent |-> sent, invoked |-> invoked,
     ret |-> ret, discarded |-> discarded, raised |-> raised,
     before |-> motors]

\* the motors after the commands of one request
\* what a motor holds after one update_* call: the value of the command sent, if any
MotorAfter(current, sent) == IF sent = <<>> THEN current ELSE Some(sent[1].value)

\* mutant: the one-shot actions are queued on key-down as well
KeyReleased_Always(is_key_down) == TRUE

\* `if not is_key_down:` the one-shot actions are queued on release only
KeyReleased(is_key_down) == is_key_down = 0

\* the handler's locals are bound one after the other, as the code computes them
handle_key(key_code, is_shift_down, is_alt_down, is_key_down) ==
    \E speed_changed \in {(go_fast # is_shift_down) \/ (go_slow # is_alt_down)} :
    \E drive \in {update_drive_state(key_code, is_key_down, speed_changed)},
       lift  \in {update_lift_state(key_code, is_key_down, speed_changed)},
       head  \in {update_head_state(key_code, is_key_down, speed_changed)} :
    \E w \in {IF drive.update
              THEN update_mouse_driving(last_wheels, drive.drive_forwards, drive.drive_back,
                                        drive.turn_left, drive.turn_right,
                                        is_shift_down, is_alt_down)
              ELSE [last |-> last_wheels, sent |-> <<>>]},
       h \in {IF head.update
              THEN update_head(last_head, head.head_up, head.head_down,
                               is_shift_down, is_alt_down)
              ELSE [last |-> last_head, sent |-> <<>>]},
       l \in {IF lift.update
              THEN update_lift(last_lift, lift.lift_up, lift.lift_down,
                               is_shift_down, is_alt_down)
              ELSE [last |-> last_lift, sent |-> <<>>]} :
    \E sent \in {w.sent \o h.sent \o l.sent} :
        /\ go_fast' = is_shift_down
        /\ go_slow' = is_alt_down
        /\ drive_forwards' = drive.drive_forwards
        /\ drive_back' = drive.drive_back
        /\ turn_left' = drive.turn_left
        /\ turn_right' = drive.turn_right
        /\ lift_up' = lift.lift_up
        /\ lift_down' = lift.lift_down
        /\ head_up' = head.head_up
        /\ head_down' = head.head_down
        /\ last_wheels' = w.last
        /\ last_head' = h.last
        /\ last_lift' = l.last
        /\ motors' = [wheels |-> MotorAfter(motors.wheels, w.sent),
                      head   |-> MotorAfter(motors.head, h.sent),
                      lift   |-> MotorAfter(motors.lift, l.sent)]
        /\ IF KeyReleased(is_key_down) /\ ord_8 >= key_code /\ key_code >= ord_1
           THEN /\ action_queue' = queue_action(action_queue,
                                        Action("run_subroutine", key_code_to_anim_name(key_code)))
                /\ queued' = queued + 1
           ELSE IF KeyReleased(is_key_down) /\ key_code = ord_space
           THEN /\ action_queue' = queue_action(action_queue, Action("say_text", text_to_say))
                /\ queued' = queued + 1
           ELSE UNCHANGED queueVars
        /\ last' = Request("handle_key", <<key_code, is_shift_down, is_alt_down, is_key_down>>,
                           sent, <<>>, "None", "none", "none")
        /\ UNCHANGED <<anim_index_for_key, text_to_say, subVars, selects, tick, quiz>>

-----------------------------------------------------------------------------
(* One axis on its own: handle_key as a function of the event sequence *)

\* the keys of the lift and of the head axis, (up, down)
axis_keys(axis) == IF axis = "lift" THEN <<ord_R, ord_F>> ELSE <<ord_T, ord_G>>

\* an axis of the controller as it is now; dispatched is the command the
\* motor received last, suppressed records a recomputation that left a
\* nonzero command standing where the setpoint was zero
axis_now(axis) ==
    [up         |-> IF axis = "lift" THEN lift_up ELSE head_up,
     down       |-> IF axis = "lift" THEN lift_down ELSE head_down,
     go_fast    |-> go_fast,
     go_slow    |-> go_slow,
     last       |-> IF axis = "lift" THEN last_lift ELSE last_head,
     dispatched |-> motors[axis],
     suppressed |-> FALSE]

\* what handle_key(key_code, is_shift_down, is_alt_down, is_key_down) does to
\* one axis: the modifier comparison, update_lift_state or update_head_state,
\* then update_lift or update_head when the axis is marked
axis_step(axis, st, key_code, is_shift_down, is_alt_down, is_key_down) ==
    LET speed_changed == st.go_fast # is_shift_down \/ st.go_slow # is_alt_down
        up      == IF key_code = axis_keys(axis)[1] THEN is_key_down ELSE st.up
        down    == IF key_code = axis_keys(axis)[2] THEN is_key_down ELSE st.down
        marked  == key_code \in {axis_keys(axis)[1], axis_keys(axis)[2]} \/ speed_changed
        r       == IF ~marked THEN [last |-> st.last, sent |-> <<>>]
                   ELSE IF axis = "lift"
                   THEN update_lift(st.last, up, down, is_shift_down, is_alt_down)
                   ELSE update_head(st.last, up, down, is_shift_down, is_alt_down)
        motor   == MotorAfter(st.dispatched, r.sent)
    IN  [up |-> up, down |-> down, go_fast |-> is_shift_down, go_slow |-> is_alt_down,
         last |-> r.last, dispatched |-> motor,
         suppressed |-> st.suppressed \/ (marked /\ up = down /\ TruthyNumber(motor))]

\* the axis after every sequence of at most n further key events of its two keys
RECURSIVE axis_reach(_, _)
axis_reach(axis, n) ==
    IF n = 0 THEN {axis_now(axis)}
    ELSE LET before == axis_reach(axis, n - 1)
         IN  before \cup
             {axis_step(axis, st, key_code, hasShift, hasAlt, is_key_down) :
                 st \in before,
                 key_code \in {axis_keys(axis)[1], axis_keys(axis)[2]},
                 hasShift \in 0..1, hasAlt \in 0..1, is_key_down \in 0..1}

-----------------------------------------------------------------------------
(* Subroutines: the one-shot routine dispatcher *)

\* what a call into the robot SDK does: it returns a true or a false value,
\* or it raises an Exception or a BaseException that is no Exception
Outcomes == {"truthy", "falsy", "Exception", "BaseException"}

Raises(outcome) == outcome \in {"Exception", "BaseException"}

\* the SDK call the routine named key makes ("none": it makes none);
\* cube is the truth value of robot.world.connected_light_cube
DelegatedCall(key, cube) ==
    CASE key = "pick_up_cube"      -> IF cube THEN "pickup_object" ELSE "none"
      [] key = "connect_to_cube"   -> "connect_cube"
      [] key = "drive_to_charger"  -> "drive_on_charger"
      [] key = "roll_cube"         -> IF cube THEN "roll_cube" ELSE "none"
      [] key = "flash_cube_lights" -> "flash_cube_lights"
      [] key = "save_pose"         -> "pose"
      [] key = "go_to_saved_pose"  -> IF saved_pose = "unset" THEN "none" ELSE "go_to_pose"
      [] key = "put_cube_down"     -> IF cube THEN "place_object_on_ground_here" ELSE "none"
      [] OTHER                     -> "none"

\* the exception the try block of run_subroutine ends with ("none": it ends normally).
\* __init__ sets saved_posed, so go_to_saved_pose before any save_pose reads an
\* attribute that does not exist (AttributeError)
TryBlock(key, cube, outcome) ==
    IF key = "go_to_saved_pose" /\ saved_pose = "unset" THEN "Exception"
    ELSE IF DelegatedCall(key, cube) # "none" /\ Raises(outcome) THEN outcome
    ELSE "none"

\* mutant: "return True" follows the try statement instead of ending its finally
\* clause, so an exception the except clause does not catch leaves the method
run_subroutine_ReturnAfterFinally(key, cube, outcome) ==
    LET exc     == TryBlock(key, cube, outcome)
        pending == IF exc = "Exception" THEN "none" ELSE exc
    IN  [runs       |-> runs + 1,
         saved_pose |-> IF key = "save_pose" /\ exc = "none" THEN "pose" ELSE saved_pose,
         call       |-> DelegatedCall(key, cube),
         discarded  |-> IF exc = "Exception" THEN exc ELSE "none",
         ret        |-> IF pending = "none" THEN "True" ELSE "None",
         raised     |-> pending]

\* mutant: "self.runs += 1" ends the try block instead of the finally clause
run_subroutine_CountInTry(key, cube, outcome) ==
    LET exc == TryBlock(key, cube, outcome)
    IN  [runs       |-> IF exc = "none" THEN runs + 1 ELSE runs,
         saved_pose |-> IF key = "save_pose" /\ exc = "none" THEN "pose" ELSE saved_pose,
         call       |-> DelegatedCall(key, cube),
         discarded  |-> exc,
         ret        |-> "True",
         raised     |-> "none"]

\* run_subroutine(key): try / except Exception / finally: runs += 1; return True.
\* The return in the finally clause discards an exception still pending.
run_subroutine(key, cube, outcome) ==
    LET exc == TryBlock(key, cube, outcome)
    IN  [runs       |-> runs + 1,
         saved_pose |-> IF key = "save_pose" /\ exc = "none" THEN "pose" ELSE saved_pose,
         call       |-> DelegatedCall(key, cube),
         discarded  |-> exc,
         ret        |-> "True",
         raised     |-> "none"]

\* behavior.say_text(text) of the SDK: not code of this repository
say_text(text, outcome) ==
    [runs       |-> runs,
     saved_pose |-> saved_pose,
     call       |-> "say_text",
     discarded  |-> "none",
     ret        |-> IF Raises(outcome) THEN "None" ELSE outcome,
     raised     |-> IF Raises(outcome) THEN outcome ELSE "none"]

\* queued_action(action_args)
Invoke(action, cube, outcome) ==
    IF action.fn = "run_subroutine"
    THEN run_subroutine(action.arg, cube, outcome)
    ELSE say_text(action.arg, outcome)

\* mutant: update pops the head whatever the invocation returned
TruthyReturn_Always(r) == r.raised = "none"

\* truth value of what an invocation returned
TruthyReturn(r) == r.raised = "none" /\ r.ret \in {"True", "truthy"}

\* no update() call is in progress
Idle == [pc |-> "idle", action |-> None, result |-> None]

\* mutant: update() reads action_queue[0] without looking at the length
update_on_empty_IndexError ==
    /\ last' = Request("update", <<>>, <<>>, <<>>, "None", "none", "IndexError")
    /\ UNCHANGED <<axisVars, anim_index_for_key, queueVars, text_to_say, subVars, selects, tick, quiz>>

\* RemoteControlVector.update when `len(self.action_queue) > 0` is false
update_on_empty ==
    /\ last' = Request("update", <<>>, <<>>, <<>>, "None", "none", "none")
    /\ UNCHANGED <<axisVars, anim_index_for_key, queueVars, text_to_say, subVars, selects, tick, quiz>>

\* RemoteControlVector.update
update(cube, outcome) ==
    IF Len(action_queue) > 0
    THEN \E queued_action \in {action_queue[1]} :
         \E r \in {Invoke(queued_action, cube, outcome)} :
             /\ action_queue' = IF TruthyReturn(r) THEN Tail(action_queue) ELSE action_queue
             /\ runs' = r.runs
             /\ saved_pose' = r.saved_pose
             /\ last' = Request("update", <<>>, <<>>, <<queued_action>>, r.ret, r.discarded, r.raised)
             /\ UNCHANGED <<axisVars, anim_index_for_key, queued, text_to_say, selects, tick, quiz>>
    ELSE update_on_empty

\* update() statement by statement: the position is kept in tick

\* `if len(self.action_queue) > 0:` and the read of action_queue[0]
update_peek ==
    /\ tick.pc = "idle"
    /\ IF Len(action_queue) > 0
       THEN /\ tick' = [pc |-> "peeked", action |-> Some(action_queue[1]), result |-> None]
            /\ UNCHANGED <<axisVars, anim_index_for_key, queueVars, text_to_say, subVars,
                           selects, quiz, last>>
       ELSE update_on_empty

\* `if queued_action(action_args):` the call and the test of what it returned
update_call(cube, outcome) ==
    /\ tick.pc = "peeked"
    /\ \E r \in {Invoke(tick.action[1], cube, outcome)} :
        /\ runs' = r.runs
        /\ saved_pose' = r.saved_pose
        /\ IF TruthyReturn(r)
           THEN /\ tick' = [tick EXCEPT !.pc = "returned true", !.result = Some(r)]
                /\ UNCHANGED last
           ELSE /\ tick' = Idle
                /\ last' = Request("update", <<>>, <<>>, <<tick.action[1]>>,
                                   r.ret, r.discarded, r.raised)
        /\ UNCHANGED <<axisVars, anim_index_for_key, queueVars, text_to_say, selects, quiz>>

\* `self.action_queue.pop(0)`
update_pop ==
    /\ tick.pc = "returned true"
    /\ Len(action_queue) > 0
    /\ action_queue' = Tail(action_queue)
    /\ tick' = Idle
    /\ last' = Request("update", <<>>, <<>>, <<tick.action[1]>>,
                       tick.result[1].ret, tick.result[1].discarded, tick.result[1].raised)
    /\ UNCHANGED <<axisVars, anim_index_for_key, queued, text_to_say, subVars, selects, quiz>>

\* mutant: the server handles each request in a thread of its own
RequestsSerialized_Threaded == TRUE

\* the server takes the next request when the one before has returned
RequestsSerialized == tick.pc = "idle"

\* a call of run_subroutine by itself, for any routine name
CallRunSubroutine(key, cube, outcome) ==
    \E r \in {run_subroutine(key, cube, outcome)} :
        /\ runs' = r.runs
        /\ saved_pose' = r.saved_pose
        /\ last' = Request("run_subroutine", <<key>>, <<>>, <<>>, r.ret, r.discarded, r.raised)
        /\ UNCHANGED <<axisVars, anim_index_for_key, queueVars, text_to_say, selects, tick, quiz>>

-----------------------------------------------------------------------------
(* The configuration requests *)

\* str() of a key number and int() of such a string
Digits == <<"0", "1", "2", "3", "4", "5", "6", "7", "8", "9">>
str(n) == Digits[n + 1]
int(s) == (CHOOSE n \in 1..Len(Digits) : Digits[n] = s) - 1

\* the name get_anim_sel_drop_down gives the drop-down of numeric key selectorIndex
SelectorName(selectorIndex) == <<"animSelector", str(selectorIndex)>>

\* the drop-downs get_anim_sel_drop_downs puts on the page: keys 1..8
DropDownKeys == {i + 1 : i \in 0..7}

set_anim(key_index, anim_index) ==
    IF key_index \in DOMAIN anim_index_for_key
    THEN [table  |-> [anim_index_for_key EXCEPT ![key_index] = anim_index],
          raised |-> "none"]
    ELSE [table  |-> anim_index_for_key,
          raised |-> "IndexError"]

\* POST /dropDownSelect with {selectedIndex, itemName}
handle_dropDownSelect(item_name, selectedIndex) ==
    LET item_name_prefix == "animSelector"
        r == IF item_name[1] = item_name_prefix
             THEN set_anim(int(item_name[2]), selectedIndex)
             ELSE [table |-> anim_index_for_key, raised |-> "none"]
    IN  /\ anim_index_for_key' = r.table
        /\ selects' = selects + 1
        /\ last' = Request("dropDownSelect", <<item_name, selectedIndex>>, <<>>, <<>>,
                           "None", "none", r.raised)
        /\ UNCHANGED <<axisVars, queueVars, text_to_say, subVars, tick, quiz>>

\* mutant: the pending speak-text actions follow the text field
handle_sayText_RewritesQueue(textEntered) ==
    /\ text_to_say' = textEntered
    /\ action_queue' = [n \in 1..Len(action_queue) |->
                           IF action_queue[n].fn = "say_text"
                           THEN [action_queue[n] EXCEPT !.arg = textEntered]
                           ELSE action_queue[n]]
    /\ last' = Request("sayText", <<textEntered>>, <<>>, <<>>, "None", "none", "none")
    /\ UNCHANGED <<axisVars, anim_index_for_key, queued, subVars, selects, tick, quiz>>

\* POST /sayText with {textEntered}
handle_sayText(textEntered) ==
    /\ text_to_say' = textEntered
    /\ last' = Request("sayText", <<textEntered>>, <<>>, <<>>, "None", "none", "none")
    /\ UNCHANGED <<axisVars, anim_index_for_key, queueVars, subVars, selects, tick, quiz>>

-----------------------------------------------------------------------------
(* The state after RemoteControlVector(robot) *)

-----------------------------------------------------------------------------
(* The quiz runner: math_questions.py and its copy remote_control/math_questions.py *)

\* A line typed at the prompt is the sequence of its characters.

RECURSIVE lstrip(_)
lstrip(s) == IF s # <<>> /\ s[1] = " " THEN lstrip(Tail(s)) ELSE s

RECURSIVE rstrip(_)
rstrip(s) == IF s # <<>> /\ s[Len(s)] = " " THEN rstrip(SubSeq(s, 1, Len(s) - 1)) ELSE s

\* the number a non-empty sequence of decimal digits denotes
RECURSIVE digits_value(_)
digits_value(s) ==
    IF s = <<>> THEN 0
    ELSE 10 * digits_value(SubSeq(s, 1, Len(s) - 1)) + int(s[Len(s)])

\* mutant: int() takes no blanks around the number
int_answer_NoStrip(answer) ==
    LET signed == answer # <<>> /\ answer[1] \in {"+", "-"}
        digits == IF signed THEN Tail(answer) ELSE answer
    IN  IF digits # <<>> /\ \A n \in 1..Len(digits) : \E d \in 1..Len(Digits) : Digits[d] = digits[n]
        THEN [raised |-> "none",
              value  |-> IF signed /\ answer[1] = "-" THEN 0 - digits_value(digits)
                         ELSE digits_value(digits)]
        ELSE [raised |-> "ValueError", value |-> 0]

\* Python's int() of a str: blanks around an optional sign and decimal digits,
\* ValueError for anything else
int_answer(answer) ==
    LET body   == rstrip(lstrip(answer))
        signed == body # <<>> /\ body[1] \in {"+", "-"}
        digits == IF signed THEN Tail(body) ELSE body
    IN  IF digits # <<>> /\ \A n \in 1..Len(digits) : \E d \in 1..Len(Digits) : Digits[d] = digits[n]
        THEN [raised |-> "none",
              value  |-> IF signed /\ body[1] = "-" THEN 0 - digits_value(digits)
                         ELSE digits_value(digits)]
        ELSE [raised |-> "ValueError", value |-> 0]

\* mutant: the answer is compared with the product of the two terms
expected_answer_Product(row) == row[1] * row[2]

\* int(row['answer']): a row is (term1, term2, answer)
expected_answer(row) == row[3]

\* the tables questions.csv is drawn from
QuizTables == {<<<<3, 7, 21>>, <<4, 6, 20>>>>,
               <<<<3, 7, 21>>, <<4, 6, 24>>, <<9, 2, 18>>>>}

\* the lines typed at the prompts
QuizInputs == {<<"2", "1">>, <<"2", "0">>, <<"2", "4">>, <<" ", "1", "8">>,
               <<"q">>, <<"Q">>, <<>>}

\* the two programs: run_program of math_questions.py, and the script
\* remote_control/math_questions.py
QuizVariants == {"run_program", "script"}

\* the quiz runner has not been started
NotRun == [pc |-> "not run", variant |-> "none", rows |-> <<>>, index |-> 0, score |-> 0,
           answers |-> <<>>, labels |-> <<>>, written |-> None]

Init ==
    /\ last_lift = None /\ last_head = None /\ last_wheels = None
    /\ drive_forwards = 0 /\ drive_back = 0 /\ turn_left = 0 /\ turn_right = 0
    /\ lift_up = 0 /\ lift_down = 0 /\ head_up = 0 /\ head_down = 0
    /\ go_fast = 0 /\ go_slow = 0
    /\ runs = 0
    /\ saved_pose = "unset"
    /\ anim_index_for_key = InitAnimIndexForKey
    /\ action_queue = <<>>
    /\ text_to_say = "Hi I'm Vector"
    /\ motors = [wheels |-> None, head |-> None, lift |-> None]
    /\ queued = 0
    /\ selects = 0
    /\ tick = Idle
    /\ quiz = NotRun
    /\ last = Request("init", <<>>, <<>>, <<>>, "None", "none", "none")

\* the quiz runner is started on a table
QuizStart(variant, rows) ==
    /\ quiz.pc = "not run"
    /\ quiz' = [pc |-> "loop", variant |-> variant, rows |-> rows, index |-> 1, score |-> 0,
                answers |-> <<>>, labels |-> <<>>, written |-> None]
    /\ UNCHANGED <<remoteVars, last>>

\* one pass of the loop body on the line typed, and, when the loop ends
\* with it, the rest of the program
QuizAnswer(answer) ==
    /\ quiz.pc = "loop"
    /\ \E row \in {quiz.rows[quiz.index]}, parsed \in {int_answer(answer)} :
       \E correct \in {parsed.raised = "none" /\ parsed.value = expected_answer(row)} :
       \E break \in {parsed.raised = "ValueError" /\ quiz.variant = "run_program"
                        /\ answer = <<"q">>} :
       \E score \in {IF correct THEN quiz.score + 1 ELSE quiz.score} :
       \E over \in {break \/ quiz.index = Len(quiz.rows)} :
           quiz' = [quiz EXCEPT
                      !.answers = Append(@, answer),
                      !.labels  = IF break THEN @
                                  ELSE IF parsed.raised = "ValueError"
                                  THEN Append(@, "Please input an integer")
                                  ELSE IF correct THEN Append(@, "Correct!")
                                  ELSE Append(@, "Incorrect"),
                      !.score   = score,
                      !.index   = IF break THEN @ ELSE @ + 1,
                      !.pc      = IF over THEN "done" ELSE "loop",
                      !.written = IF over /\ quiz.variant = "run_program"
                                  THEN Some(score) ELSE @]
    /\ UNCHANGED <<remoteVars, last>>

-----------------------------------------------------------------------------
(* Specifications: the same handlers, driven by different sets of requests *)

\* key events of the drive keys, any modifiers
DriveKeyEvent ==
    \E key_code \in DriveKeys, hasShift \in 0..1, hasAlt \in 0..1, is_key_down \in 0..1 :
        handle_key(key_code, hasShift, hasAlt, is_key_down)

NextDrive == DriveKeyEvent

SpecDrive == Init /\ [][NextDrive]_vars

\* key events of the lift and head keys, any modifiers
LiftHeadKeyEvent ==
    \E key_code \in LiftKeys \cup HeadKeys, hasShift \in 0..1, hasAlt \in 0..1,
       is_key_down \in 0..1 :
        handle_key(key_code, hasShift, hasAlt, is_key_down)

NextLiftHead == LiftHeadKeyEvent

SpecLiftHead == Init /\ [][NextLiftHead]_vars

\* key events of one numeric key and of the space key, no modifier held
QueueKeyEvent ==
    \E key_code \in {ord_1, ord_space}, is_key_down \in 0..1 :
        /\ queued < MaxEnqueued
        /\ handle_key(key_code, 0, 0, is_key_down)

\* POST /updateVector
Tick ==
    \E cube \in BOOLEAN, outcome \in Outcomes : update(cube, outcome)

NextQueue == QueueKeyEvent \/ Tick

SpecQueue == Init /\ [][NextQueue]_vars

\* key events of the eight numeric keys, on the key table __init__ built
NumKeyEvent ==
    \E key_code \in NumKeys, is_key_down \in 0..1 :
        /\ Len(action_queue) < MaxPending
        /\ handle_key(key_code, 0, 0, is_key_down)

NextNumKeys == NumKeyEvent

SpecNumKeys == Init /\ [][NextNumKeys]_vars

\* releases of the numeric keys and routine selections
NumKeyRelease ==
    \E key_code \in NumKeys :
        /\ Len(action_queue) < MaxPending
        /\ handle_key(key_code, 0, 0, 0)

DropDownSelect ==
    \E k \in DropDownKeys, selectedIndex \in 0..(Len(anim_names) - 1) :
        /\ selects < MaxSelects
        /\ handle_dropDownSelect(SelectorName(k), selectedIndex)

NextKeyTable == NumKeyRelease \/ DropDownSelect

SpecKeyTable == Init /\ [][NextKeyTable]_vars

\* run_subroutine called with any name
RoutineNames == {anim_names[n] : n \in 1..Len(anim_names)} \cup {"dance"}

DispatchCall ==
    \E key \in RoutineNames, cube \in BOOLEAN, outcome \in Outcomes :
        /\ runs < MaxRuns
        /\ CallRunSubroutine(key, cube, outcome)

NextDispatch == DispatchCall

SpecDispatch == Init /\ [][NextDispatch]_vars

\* key events of one drive key, one lift key, one head key and one numeric
\* key with or without shift, and polls of the page
AxisTickKeyEvent ==
    \E key_code \in {ord_W, ord_R, ord_T, ord_1}, hasShift \in 0..1, is_key_down \in 0..1 :
        /\ queued < MaxEnqueued
        /\ Len(action_queue) < MaxPending
        /\ handle_key(key_code, hasShift, 0, is_key_down)

NextAxesTick == AxisTickKeyEvent \/ Tick

SpecAxesTick == Init /\ [][NextAxesTick]_vars

\* key events of two drive keys, a lift key, a head key and a key that has
\* no meaning, any modifiers
AxisKeyEvent ==
    \E key_code \in {ord_S, ord_D, ord_R, ord_T, ord_P},
       hasShift \in 0..1, hasAlt \in 0..1, is_key_down \in 0..1 :
        handle_key(key_code, hasShift, hasAlt, is_key_down)

NextAxes == AxisKeyEvent

SpecAxes == Init /\ [][NextAxes]_vars

\* presses and releases of every numeric key, of space, of a drive key and
\* of a key that has no meaning
AnyKeyEvent ==
    \E key_code \in NumKeys \cup {ord_space, ord_W, ord_P}, is_key_down \in 0..1 :
        /\ Len(action_queue) < MaxPending
        /\ handle_key(key_code, 0, 0, is_key_down)

NextAnyKey == AnyKeyEvent

SpecAnyKey == Init /\ [][NextAnyKey]_vars

\* releases of space, and polls of the page taken statement by statement
SerializedKeyEvent ==
    \E key_code \in {ord_space} :
        /\ RequestsSerialized
        /\ queued < MaxEnqueued
        /\ handle_key(key_code, 0, 0, 0)

TickStep ==
    \/ update_peek
    \/ \E cube \in BOOLEAN, outcome \in Outcomes : update_call(cube, outcome)
    \/ update_pop

NextSteps == SerializedKeyEvent \/ TickStep

SpecSteps == Init /\ [][NextSteps]_vars

\* a run of the quiz: either program, any table, any lines typed
QuizRun == \E variant \in QuizVariants, rows \in QuizTables : QuizStart(variant, rows)

QuizInput == \E answer \in QuizInputs : QuizAnswer(answer)

NextQuiz == QuizRun \/ QuizInput

SpecQuiz == Init /\ [][NextQuiz]_vars

\* releases of key 1 and of space in turn, and polls of the page
TurnKeyRelease ==
    \E key_code \in {IF queued % 2 = 0 THEN ord_1 ELSE ord_space} :
        /\ queued < MaxEnqueued
        /\ handle_key(key_code, 0, 0, 0)

NextFifo == TurnKeyRelease \/ Tick

SpecFifo == Init /\ [][NextFifo]_vars

\* a few releases of key 1 and of space, and the polls of the page, which
\* its timer (setInterval(updateVector, 60)) keeps sending
DrainKeyRelease ==
    \E key_code \in {ord_1, ord_space} :
        /\ queued < MaxReleases
        /\ handle_key(key_code, 0, 0, 0)

NextDrain == DrainKeyRelease \/ Tick

SpecDrain == Init /\ [][NextDrain]_vars /\ WF_vars(Tick)

\* releases of key 2 and of space, changes of the routine of key 2 (the
\* drop-down named animSelector1 writes its slot) and of the text, and polls
LateKeyRelease ==
    \E key_code \in {ord_1 + 1, ord_space} :
        /\ queued < MaxReleases
        /\ handle_key(key_code, 0, 0, 0)

LateDropDownSelect ==
    \E selectedIndex \in {5} :
        /\ selects < MaxSelects
        /\ handle_dropDownSelect(SelectorName(1), selectedIndex)

LateSayText == \E textEntered \in Texts : handle_sayText(textEntered)

NextLateChange == LateKeyRelease \/ LateDropDownSelect \/ LateSayText \/ Tick

SpecLateChange == Init /\ [][NextLateChange]_vars

\* every request the handlers accept
Next ==
    \/ \E key_code \in AxisKeys \cup NumKeys \cup {ord_space}, hasShift \in 0..1,
          hasAlt \in 0..1, is_key_down \in 0..1 :
            handle_key(key_code, hasShift, hasAlt, is_key_down)
    \/ Tick
    \/ \E k \in DropDownKeys, selectedIndex \in 0..(Len(anim_names) - 1) :
            handle_dropDownSelect(SelectorName(k), selectedIndex)
    \/ \E textEntered \in Texts : handle_sayText(textEntered)

Spec == Init /\ [][Next]_vars

-----------------------------------------------------------------------------
(* Properties *)

\* the commands the request handled last sent to the motor named m
SentTo(req, m) == {req.sent[n].value : n \in {j \in 1..Len(req.sent) : req.sent[j].motor = m}}

\* the request handled last was a key event of a key in keys
KeyEventOf(req, keys) == req.op = "handle_key" /\ req.args[1] \in keys

\* C1: in every reachable state the action queue holds at most 10 entries
\* (an enqueue with 10 pending evicts the oldest, so the length stays 10).
C1_QueueHoldsAtMostTen == Len(action_queue) <= 10

\* C2: on the lift axis and on the head axis, no command sent to the motor carries
\* the velocity of the command that motor received last, zero included.
C2_NoRepeatedLiftOrHeadCommand ==
    [][\A m \in {"lift", "head"} : \A v \in SentTo(last', m) : motors[m] # Some(v)]_vars

\* C3: no wheel command carries the 4-tuple of the wheel command sent last,
\* the all-zero tuple included.
C3_NoRepeatedWheelCommand ==
    [][\A v \in SentTo(last', "wheels") : motors.wheels # Some(v)]_vars

\* a drive key event recomputed the all-zero tuple, which the wheels had received
\* last, and sent nothing
C3_ZeroTupleSuppressed ==
    /\ KeyEventOf(last, DriveKeys)
    /\ drive_forwards = drive_back /\ turn_left = turn_right
    /\ motors.wheels = Some(<<0, 0, 0, 0>>)
    /\ SentTo(last, "wheels") = {}

\* the speed tier the modifier flags select
C4_Tier == IF go_fast = 1 /\ go_slow = 0 THEN "fast"
           ELSE IF go_slow = 1 /\ go_fast = 0 THEN "slow"
           ELSE "mid"

C4_F == CASE C4_Tier = "fast" -> 150 [] C4_Tier = "mid" -> 75 [] C4_Tier = "slow" -> 50

C4_T == CASE C4_Tier = "fast" -> 100 [] C4_Tier = "mid" -> 50 [] C4_Tier = "slow" -> 30

\* C4: every wheel command handle_key sends is (L, R, 4L, 4R) with L = d*F + t*T and
\* R = d*F - t*T, d = forward - back, t = right - left negated when d < 0, and (F, T)
\* the pair of the tier the modifier flags select.
C4_WheelCommandFollowsFormula ==
    \A v \in SentTo(last, "wheels") :
        LET d == drive_forwards - drive_back
            t == IF d < 0 THEN -(turn_right - turn_left) ELSE turn_right - turn_left
            L == d * C4_F + t * C4_T
            R == d * C4_F - t * C4_T
        IN  v = <<L, R, 4 * L, 4 * R>>

\* a wheel command sent with both modifiers held, while reversing and turning
C4_CommandWithBothModifiers ==
    /\ SentTo(last, "wheels") # {}
    /\ go_fast = 1 /\ go_slow = 1
    /\ drive_back = 1 /\ drive_forwards = 0 /\ turn_right = 1 /\ turn_left = 0

\* what the turn adds to the left wheel of a wheel tuple (the right wheel gets the
\* negation): half the difference of the two wheel setpoints
C5_TurnPart(params) == (params[1] - params[2]) \div 2

\* C5: for the same turn flags and tier, the turn contribution of a wheel command sent
\* while reversing is the negation of the one the code computes for driving forward;
\* with zero drive intent it is the forward one, not negated.
C5_TurnNegatedOnlyWhenReversing ==
    \A v \in SentTo(last, "wheels") :
        LET forward == C5_TurnPart(wheel_params(1, 0, turn_left, turn_right, go_fast, go_slow))
        IN  /\ (drive_back = 1 /\ drive_forwards = 0) => C5_TurnPart(v) = -forward
            /\ (drive_back = drive_forwards) => C5_TurnPart(v) = forward
            /\ v[1] + v[2] = 2 * (drive_forwards - drive_back) * C4_F

\* a wheel command sent while reversing with the left turn key held
C5_ReversingLeftCommand ==
    /\ SentTo(last, "wheels") # {}
    /\ drive_back = 1 /\ drive_forwards = 0 /\ turn_left = 1 /\ turn_right = 0

\* the routine the claim lists for numeric key k
C6_Routines == <<"connect_to_cube", "flash_cube_lights", "pick_up_cube", "put_cube_down",
                 "roll_cube", "drive_to_charger", "save_pose", "go_to_saved_pose">>

\* the step is a release of numeric key k
ReleaseOfKey(k) == last'.op = "handle_key" /\ last'.args[1] = ord_1 + (k - 1) /\ last'.args[4] = 0

\* the step appended exactly one new tuple at the tail, evicting at most the oldest
AppendsOne ==
    /\ queued' = queued + 1
    /\ Len(action_queue') >= 1
    /\ action_queue'[Len(action_queue')].id = queued'
    /\ \/ SubSeq(action_queue', 1, Len(action_queue') - 1) = action_queue
       \/ /\ action_queue # <<>>
          /\ SubSeq(action_queue', 1, Len(action_queue') - 1) = Tail(action_queue)

\* C6: with the key table __init__ builds, a release of numeric key k appends exactly
\* one action at the tail: the routine dispatcher with the k-th routine name listed.
C6_DefaultKeyEnqueuesItsRoutine ==
    [][\A k \in 1..8 :
        (anim_index_for_key = InitAnimIndexForKey /\ ReleaseOfKey(k)) =>
            /\ AppendsOne
            /\ action_queue'[Len(action_queue')].fn = "run_subroutine"
            /\ action_queue'[Len(action_queue')].arg = C6_Routines[k]]_vars

\* key '3' was released with the default table, behind an action already pending
C6_KeyThreeReleased ==
    /\ last.op = "handle_key" /\ last.args[1] = ord_1 + 2 /\ last.args[4] = 0
    /\ anim_index_for_key = InitAnimIndexForKey
    /\ Len(action_queue) = 2
    /\ action_queue[2].arg = "pick_up_cube"

\* C7: after the drop-down of numeric key k selected routine index i, the next release
\* of key k enqueues the routine of index i; the selection leaves the routine of every
\* other key unchanged.
C7_SelectionSetsItsOwnKey ==
    [][\A k \in 1..8 : \A i \in 0..7 :
        /\ (last.op = "dropDownSelect" /\ last.args = <<SelectorName(k), i>> /\ ReleaseOfKey(k))
              => action_queue'[Len(action_queue')].arg = anim_names[i + 1]
        /\ (last'.op = "dropDownSelect" /\ last'.args = <<SelectorName(k), i>>)
              => \A other \in (1..8) \ {k} :
                    anim_index_for_key'[other - 1] = anim_index_for_key[other - 1]]_vars

\* C8: an update() invokes at most one action, the head entry with its argument; it
\* removes that entry only if the invocation returned a true value, and changes
\* nothing else of the queue.
C8_UpdateInvokesHeadOnce ==
    [][last'.op = "update" =>
        /\ runs' \in {runs, runs + 1}
        /\ IF action_queue = <<>>
           THEN last'.invoked = <<>> /\ action_queue' = <<>>
           ELSE /\ last'.invoked = <<action_queue[1]>>
                /\ action_queue' \in {action_queue, Tail(action_queue)}
                /\ action_queue' # action_queue =>
                       last'.raised = "none" /\ last'.ret \in {"True", "truthy"}]_vars

\* an update() invoked the head, which reported no completion, and left it at the head
\* of a queue of several entries
C8_HeadKeptAfterFailure ==
    /\ last.op = "update" /\ last.ret = "falsy"
    /\ Len(action_queue) >= 2
    /\ last.invoked = <<action_queue[1]>>

\* the step is an update() that invoked an action
Invoked == last'.op = "update" /\ last'.invoked # <<>>

\* the tuple invoked by the step is still queued after it
StillQueued == \E n \in 1..Len(action_queue') : action_queue'[n].id = last'.invoked[1].id

C10_RunSubroutineAlwaysCompletes ==
    [][last'.op = "run_subroutine" =>
        /\ runs' = runs + 1
        /\ last'.ret = "True"
        /\ last'.raised = "none"]_vars

\* run_subroutine was called with a name it maps and the robot call raised
C10_KnownRoutineRaised ==
    /\ last.op = "run_subroutine" /\ last.args = <<"pick_up_cube">>
    /\ last.discarded = "Exception"
    /\ runs >= 2

\* C11: a call of update() that finds the queue empty raises nothing, invokes
\* no action, and leaves the queue, every direction and modifier flag, the
\* last-sent setpoints (and the motors) and the run counter as they were
C11_UpdateOnEmptyQueueIsNoOp ==
    [][(action_queue = <<>> /\ last'.op = "update")
        => /\ last'.raised = "none"
           /\ last'.invoked = <<>>
           /\ action_queue' = <<>>
           /\ UNCHANGED <<driveFlags, liftFlags, headFlags, modFlags>>
           /\ UNCHANGED <<lastSent, motors>>
           /\ UNCHANGED <<runs, saved_pose>>]_vars

\* update() found the queue empty while a key was held at the fast tier,
\* after a routine had run
C11_IdlePollWhileDriving ==
    /\ last.op = "update" /\ last.invoked = <<>>
    /\ action_queue = <<>>
    /\ drive_forwards = 1 /\ go_fast = 1 /\ TruthyNumber(last_lift)
    /\ runs > 0

\* the keys handle_key gives a meaning to
C12_MappedKeys == AxisKeys \cup NumKeys \cup {ord_space}

\* C12 as stated: a key event of a key that is no axis key, no numeric key
\* and not space changes no direction flag, enqueues nothing and dispatches
\* no actuator command, whatever its shift and alt state
C12_UnmappedKeyIsNoOp ==
    [][(last'.op = "handle_key" /\ last'.args[1] \notin C12_MappedKeys)
        => /\ UNCHANGED <<driveFlags, liftFlags, headFlags>>
           /\ UNCHANGED queueVars
           /\ last'.sent = <<>>]_vars

\* C12, amended: such a key event changes no direction flag and enqueues
\* nothing; it stores its shift and alt state as the modifier flags; and if
\* that state equals the stored one it dispatches no command and leaves the
\* last-sent setpoints alone
C12_UnmappedKeyOnlyCarriesModifiers ==
    [][(last'.op = "handle_key" /\ last'.args[1] \notin C12_MappedKeys)
        => /\ UNCHANGED <<driveFlags, liftFlags, headFlags>>
           /\ UNCHANGED queueVars
           /\ go_fast' = last'.args[2] /\ go_slow' = last'.args[3]
           /\ (<<last'.args[2], last'.args[3]>> = <<go_fast, go_slow>>
                 => /\ last'.sent = <<>>
                    /\ UNCHANGED <<lastSent, motors>>)]_vars

\* a meaningless key was pressed with the stored modifiers while the robot
\* was reversing fast: nothing was sent
C12_UnmappedKeyWhileDriving ==
    /\ last.op = "handle_key" /\ last.args = <<ord_P, 1, 0, 1>>
    /\ last.sent = <<>>
    /\ drive_back = 1 /\ go_fast = 1 /\ go_slow = 0
    /\ TruthyTuple(last_wheels)

\* the step appends exactly one tuple, made by this request, that calls fn
C13_EnqueuesOne(fn) ==
    /\ queued' = queued + 1
    /\ action_queue' = Append(action_queue, action_queue'[Len(action_queue')])
    /\ action_queue'[Len(action_queue')].id = queued'
    /\ action_queue'[Len(action_queue')].fn = fn

\* C13: only key releases enqueue: a key-down leaves the queue as it was,
\* the release of a numeric key 1..8 enqueues exactly one routine action,
\* the release of space exactly one speak-text action, and the release of
\* any other key nothing
C13_OnlyReleasesEnqueue ==
    [][last'.op = "handle_key"
        => IF last'.args[4] = 1 THEN UNCHANGED queueVars
           ELSE IF last'.args[1] \in ord_1 .. ord_8 THEN C13_EnqueuesOne("run_subroutine")
           ELSE IF last'.args[1] = ord_space THEN C13_EnqueuesOne("say_text")
           ELSE UNCHANGED queueVars]_vars

\* space was released after key 8: the queue holds that routine, then the
\* speak-text action
C13_SpaceReleasedAfterKeyEight ==
    /\ last.op = "handle_key" /\ last.args = <<ord_space, 0, 0, 0>>
    /\ Len(action_queue) = 2
    /\ action_queue[1].fn = "run_subroutine" /\ action_queue[1].arg = "put_cube_down"
    /\ action_queue[2].fn = "say_text" /\ action_queue[2].id = queued

\* the (fast, mid, slow) triples the code calls pick_speed with (head in halves)
C14_Triples == {<<150, 75, 50>>, <<100, 50, 30>>, <<8, 4, 2>>, <<4, 2, 1>>}

\* C14: on the modifier flags of any reachable state, pick_speed returns
\* its fast argument exactly when fast is set and slow is not, its slow
\* argument exactly when slow is set and fast is not, and its mid argument
\* in the two remaining cases
C14_PickSpeedTruthTable ==
    \A t \in C14_Triples :
        LET speed == pick_speed(go_fast, go_slow, t[1], t[2], t[3])
        IN  /\ speed = t[1] <=> (go_fast = 1 /\ go_slow = 0)
            /\ speed = t[3] <=> (go_slow = 1 /\ go_fast = 0)
            /\ speed = t[2] <=> (go_fast = go_slow)

\* with shift and alt both held the lift was commanded at the mid speed
C14_BothModifiersGiveMid ==
    /\ go_fast = 1 /\ go_slow = 1
    /\ last.op = "handle_key" /\ last.args = <<ord_F, 1, 1, 1>>
    /\ SentTo(last, "lift") = {-4}

\* the lift speed of the tier the modifier flags select
C15_S == IF go_fast = 1 /\ go_slow = 0 THEN 8
         ELSE IF go_slow = 1 /\ go_fast = 0 THEN 2
         ELSE 4

\* C15: every lift command a key event sends carries (lift_up - lift_down) * s,
\* with s = 8, 4 or 2 for the fast, mid or slow tier of that event's modifiers
C15_LiftCommandFollowsFormula ==
    last.op = "handle_key"
        => /\ go_fast = last.args[2] /\ go_slow = last.args[3]
           /\ \A v \in SentTo(last, "lift") : v = (lift_up - lift_down) * C15_S

\* the lift is lowered fast: R is not held, F is, shift only
C15_LiftLoweredFast ==
    /\ last.op = "handle_key" /\ last.args[2] = 1 /\ last.args[3] = 0
    /\ lift_up = 0 /\ lift_down = 1
    /\ SentTo(last, "lift") = {-8}

\* C16 as stated: there is a sequence of key events (here: of at most
\* MaxKeyEvents events of the keys of one axis, on a freshly constructed
\* controller) after which the last command dispatched to the lift or to
\* the head is nonzero although the setpoint just recomputed is zero
C16_ZeroSetpointCanBeSuppressed ==
    last.op = "init"
        => \E axis \in {"lift", "head"} :
               \E st \in axis_reach(axis, MaxKeyEvents) : st.suppressed

\* the lift or head flags of the current state, (up, down)
C16_Flags(m) == IF m = "lift" THEN <<lift_up, lift_down>> ELSE <<head_up, head_down>>

\* C16, amended: the truthiness test of the last-sent value never suppresses
\* a zero: when a key event leaves the lift (head) setpoint at zero and the
\* motor's last command was nonzero, the event sends a zero command to it;
\* and an event of a lift (head) key that finds the last command already
\* zero sends the zero again
C16_ZeroAfterNonzeroIsSent ==
    last.op = "handle_key"
        => \A m \in {"lift", "head"} :
            (C16_Flags(m)[1] = C16_Flags(m)[2])
                => /\ TruthyNumber(last.before[m])
                        => (SentTo(last, m) = {0} /\ motors[m] = Some(0))
                   /\ (last.before[m] = Some(0) /\ last.args[1] \in LiftKeys /\ m = "lift")
                        => SentTo(last, m) = {0}
                   /\ (last.before[m] = Some(0) /\ last.args[1] \in HeadKeys /\ m = "head")
                        => SentTo(last, m) = {0}

\* R was released while the lift was rising fast: the zero command was sent
C16_LiftStoppedOnRelease ==
    /\ last.op = "handle_key" /\ last.args = <<ord_R, 1, 0, 0>>
    /\ last.before.lift = Some(8)
    /\ SentTo(last, "lift") = {0} /\ motors.lift = Some(0) /\ last_lift = Some(0)

\* C17: requests are handled one at a time, so no key event is handled
\* while an update() is between its peek and its pop; the entry update()
\* removes is the entry it has just invoked, and update() removes no entry
\* that was not invoked
C17_UpdateRemovesWhatItInvoked ==
    [][/\ tick.pc # "idle" => queued' = queued
       /\ (tick.pc = "returned true" /\ tick'.pc = "idle")
            => /\ action_queue # <<>>
               /\ action_queue[1] = tick.action[1]
               /\ action_queue' = Tail(action_queue)
               /\ last'.invoked = <<action_queue[1]>>
       /\ tick.pc # "returned true" => Len(action_queue') >= Len(action_queue)]_vars

\* an update() has invoked the head of a queue of eleven and is about to pop it
C17_AboutToPopFullQueue ==
    /\ tick.pc = "returned true"
    /\ Len(action_queue) = QueueLimit + 1
    /\ action_queue[1] = tick.action[1]

\* the quiz of C18 has been run to its end: rows (3, 7, 21) and (4, 6, 20),
\* answered "21" and then "20"
C18_Case ==
    /\ quiz.pc = "done"
    /\ quiz.rows = <<<<3, 7, 21>>, <<4, 6, 20>>>>
    /\ quiz.answers = <<<<"2", "1">>, <<"2", "0">>>>

\* the number of rows labelled correct
C18_CorrectRows == Cardinality({n \in 1..Len(quiz.labels) : quiz.labels[n] = "Correct!"})

\* C18 as stated: in that quiz the first answer is labelled correct, the
\* second incorrect, and the final score is 1
C18_SecondAnswerIncorrect ==
    C18_Case => /\ quiz.labels = <<"Correct!", "Incorrect">>
                /\ quiz.score = 1

\* C18, amended: the final score is the number of rows labelled correct
\* (run_program writes that number out), and in that quiz both answers are
\* labelled correct and the final score is 2, since 20 is the answer the
\* second row stores
C18_ScoreCountsStoredAnswers ==
    /\ quiz.pc = "done"
        => /\ quiz.score = C18_CorrectRows
           /\ quiz.variant = "run_program" => quiz.written = Some(quiz.score)
    /\ C18_Case => /\ quiz.labels = <<"Correct!", "Correct!">>
                   /\ quiz.score = 2

\* run_program has finished that quiz and written 2
C18_BothAnswersCorrect ==
    C18_Case /\ quiz.variant = "run_program" /\ quiz.written = Some(2)

\* C19: the line "q" at any row ends the loop at once: no later row is
\* prompted, the score is not incremented, and the score accumulated so far
\* is the final score written out
C19_SentinelEndsQuiz ==
    [][(quiz.pc = "loop" /\ quiz'.answers = Append(quiz.answers, <<"q">>))
        => /\ quiz'.pc = "done"
           /\ quiz'.index = quiz.index
           /\ quiz'.score = quiz.score
           /\ quiz'.written = Some(quiz.score)]_vars

\* the head speed (in halves) of the tier the modifier flags select
C20_H == IF go_fast = 1 /\ go_slow = 0 THEN 4
         ELSE IF go_slow = 1 /\ go_fast = 0 THEN 1
         ELSE 2

\* the setpoint the current flags and tier imply for each axis
C20_Implied ==
    LET d == drive_forwards - drive_back
        t == IF d < 0 THEN -(turn_right - turn_left) ELSE turn_right - turn_left
        L == d * C4_F + t * C4_T
        R == d * C4_F - t * C4_T
    IN  [wheels |-> <<L, R, 4 * L, 4 * R>>,
         lift   |-> (lift_up - lift_down) * C15_S,
         head   |-> (head_up - head_down) * C20_H]

\* C20: in every reachable state the last-sent setpoint of each axis is
\* unset or is the setpoint the current flags and tier imply, and it is the
\* command the motor received last; so once all keys of an axis are
\* released after a command was sent, the last command dispatched to that
\* axis is zero
C20_LastSentMatchesFlags ==
    /\ last_wheels \in {None, Some(C20_Implied.wheels)}
    /\ last_lift \in {None, Some(C20_Implied.lift)}
    /\ last_head \in {None, Some(C20_Implied.head)}
    /\ motors = [wheels |-> last_wheels, head |-> last_head, lift |-> last_lift]
    /\ (driveFlags = <<0, 0, 0, 0>> /\ motors.wheels # None)
            => motors.wheels = Some(<<0, 0, 0, 0>>)
    /\ (liftFlags = <<0, 0>> /\ motors.lift # None) => motors.lift = Some(0)
    /\ (headFlags = <<0, 0>> /\ motors.head # None) => motors.head = Some(0)

\* S, the last drive key held, was released: the wheels, which were reversing
\* at the slow tier, were stopped, while the lift still rises at the slow speed
C20_WheelsStoppedLiftRising ==
    /\ last.op = "handle_key" /\ last.args[1] = ord_S /\ last.args[4] = 0
    /\ driveFlags = <<0, 0, 0, 0>>
    /\ last.before.wheels = Some(<<-50, -50, -200, -200>>)
    /\ motors.wheels = Some(<<0, 0, 0, 0>>)
    /\ lift_up = 1 /\ go_slow = 1 /\ go_fast = 0 /\ last_lift = Some(2)

\* the enqueue number of the action the request handled last invoked (0: none)
C21_InvokedId ==
    IF last.op = "update" /\ last.invoked # <<>> THEN last.invoked[1].id ELSE 0

\* C21: the queue is FIFO. Every key release that enqueues puts one new
\* action at the tail and drops at most the oldest entry; update() invokes
\* the oldest pending entry and removes nothing else; and once an action
\* has been invoked, no action enqueued before it is invoked any more
C21_QueueIsFifo ==
    /\ [][/\ queued' # queued
            => /\ queued' = queued + 1
               /\ action_queue' # <<>>
               /\ action_queue'[Len(action_queue')].id = queued'
               /\ \/ action_queue' = Append(action_queue, action_queue'[Len(action_queue')])
                  \/ /\ action_queue # <<>>
                     /\ action_queue' = Append(Tail(action_queue),
                                               action_queue'[Len(action_queue')])
          /\ (last'.op = "update" /\ action_queue # <<>>)
            => /\ last'.invoked = <<action_queue[1]>>
               /\ action_queue' \in {action_queue, Tail(action_queue)}]_vars
    /\ \A k \in 1..MaxEnqueued :
          [](C21_InvokedId = k => [](C21_InvokedId = 0 \/ C21_InvokedId >= k))

\* the twelfth release evicted the first action, which was never invoked:
\* update() has invoked and removed the second, the third is now the head
C21_SecondInvokedAfterEviction ==
    /\ last.op = "update" /\ last.invoked # <<>> /\ last.invoked[1].id = 2
    /\ runs = 0
    /\ queued = QueueLimit + 2
    /\ Len(action_queue) = QueueLimit /\ action_queue[1].id = 3

C22_SpeakTextPending == \E n \in 1..Len(action_queue) : action_queue[n].fn = "say_text"

C23_Axis(m) ==
    IF m = "wheels" THEN <<driveFlags, last_wheels>>
    ELSE IF m = "lift" THEN <<liftFlags, last_lift>>
    ELSE <<headFlags, last_head>>

\* the step leaves axis m alone: flags, last-sent setpoint and motor
C23_Untouched(m) ==
    /\ C23_Axis(m)' = C23_Axis(m)
    /\ SentTo(last', m) = {}
    /\ motors'[m] = motors[m]

\* the step recomputes axis m: the setpoint the new flags and tier imply is
\* now the last-sent one, and it was sent unless it was stored already
C23_Recomputed(m) ==
    /\ C23_Axis(m)'[2] = Some(C20_Implied'[m])
    /\ motors'[m] = Some(C20_Implied'[m])
    /\ \/ SentTo(last', m) = {C20_Implied'[m]}
       \/ SentTo(last', m) = {} /\ C23_Axis(m)[2] = Some(C20_Implied'[m])

\* the axis a key belongs to ("none": it belongs to none)
C23_AxisOf(key_code) ==
    IF key_code \in DriveKeys THEN "wheels"
    ELSE IF key_code \in LiftKeys THEN "lift"
    ELSE IF key_code \in HeadKeys THEN "head"
    ELSE "none"

\* C23: a key event of a key of one axis whose shift/alt state equals the
\* stored modifiers leaves the other two axes alone (flags, last-sent
\* setpoints, no command to their motors); a key event whose shift/alt
\* state differs from the stored modifiers recomputes all three axes,
\* whatever the key
C23_OnlyTheKeysAxisChanges ==
    [][last'.op = "handle_key"
        => IF <<last'.args[2], last'.args[3]>> = <<go_fast, go_slow>>
           THEN \A m \in {"wheels", "lift", "head"} \ {C23_AxisOf(last'.args[1])} :
                    C23_AxisOf(last'.args[1]) # "none" => C23_Untouched(m)
           ELSE \A m \in {"wheels", "lift", "head"} : C23_Recomputed(m)]_vars

\* T was pressed with the stored modifiers while the robot was reversing
\* fast with the lift rising: only the head was commanded
C23_HeadKeyWhileReversing ==
    /\ last.op = "handle_key" /\ last.args = <<ord_T, 1, 0, 1>>
    /\ last.before.wheels = Some(<<-150, -150, -600, -600>>)
    /\ last.before.lift = Some(8)
    /\ last.before.head \in {None, Some(0)}
    /\ motors = [wheels |-> last.before.wheels, head |-> Some(4), lift |-> last.before.lift]
    /\ SentTo(last, "head") = {4} /\ Len(last.sent) = 1

\* C24: the argument of a queued action is fixed when the key is released:
\* the release of a numeric key stores the routine its slot names at that
\* moment and the release of space the text set at that moment; no request
\* changes an entry while it is pending, a configuration request leaves the
\* whole queue as it is, and update() invokes the head entry as stored
C24_ArgumentFixedAtRelease ==
    [][/\ (last'.op = "handle_key" /\ queued' # queued)
            => action_queue'[Len(action_queue')].arg =
                  IF last'.args[1] = ord_space THEN text_to_say
                  ELSE anim_names[anim_index_for_key[last'.args[1] - ord_1] + 1]
       /\ \A n \in 1..Len(action_queue), m \in 1..Len(action_queue') :
              action_queue'[m].id = action_queue[n].id => action_queue'[m] = action_queue[n]
       /\ last'.op \in {"dropDownSelect", "sayText"} => action_queue' = action_queue
       /\ (last'.op = "update" /\ action_queue # <<>>)
            => last'.invoked = <<action_queue[1]>>]_vars

\* key 2 and then space were released, then key 2 was given the routine
\* save_pose and the text was changed: update() has run the routine key 2
\* had when it was released, and the pending speak-text action still holds
\* the old text
C24_OldRoutineRunOldTextPending ==
    /\ last.op = "update" /\ last.invoked # <<>>
    /\ last.invoked[1].fn = "run_subroutine" /\ last.invoked[1].arg = "flash_cube_lights"
    /\ anim_names[anim_index_for_key[1] + 1] = "save_pose"
    /\ text_to_say = "hello"
    /\ action_queue # <<>> /\ action_queue[1].fn = "say_text"
    /\ action_queue[1].arg = "Hi I'm Vector"

\* the integer each line that can be typed denotes in Python (-1: none)
C25_Integer(answer) ==
    CASE answer = <<"2", "1">> -> 21
      [] answer = <<"2", "0">> -> 20
      [] answer = <<"2", "4">> -> 24
      [] answer = <<" ", "1", "8">> -> 18
      [] OTHER -> -1

\* the rows prompted so far whose line denotes the answer the row stores
C25_CorrectSoFar ==
    Cardinality({n \in 1..Len(quiz.answers) :
                    n <= Len(quiz.rows) /\ C25_Integer(quiz.answers[n]) = quiz.rows[n][3]})

\* C25: the score starts at 0 and never decreases; after each prompted row
\* it is the number of rows so far whose line parsed to the stored answer;
\* a line that is no integer and is not "q" leaves the score as it was and
\* uses the row up; so the score never exceeds the number of rows prompted
C25_ScoreCountsCorrectRows ==
    [][quiz' # quiz
        => /\ quiz.pc = "not run" => (quiz'.score = 0 /\ quiz'.answers = <<>>)
           /\ quiz.pc = "loop"
                => /\ Len(quiz'.answers) = Len(quiz.answers) + 1
                   /\ quiz'.score >= quiz.score
                   /\ quiz'.score = C25_CorrectSoFar'
                   /\ quiz'.score <= Len(quiz'.answers)
                   /\ \A answer \in {quiz'.answers[Len(quiz'.answers)]} :
                         (C25_Integer(answer) = -1 /\ answer # <<"q">>)
                            => /\ quiz'.score = quiz.score
                               /\ quiz'.index = quiz.index + 1
                               /\ quiz'.labels = Append(quiz.labels, "Please input an integer")]_vars

\* three rows were prompted: the first answered right, the second with "Q",
\* the third with " 18" for the stored 18; the final score is 2
C25_TwoOfThree ==
    /\ quiz.pc = "done"
    /\ quiz.answers = <<<<"2", "1">>, <<"Q">>, <<" ", "1", "8">>>>
    /\ quiz.labels = <<"Correct!", "Please input an integer", "Correct!">>
    /\ quiz.score = 2

=============================================================================
